---- MODULE Spec2Model ----
(***************************************************************************)
(* Model of artifactreconstruct-ai: the retry wrapper and the three        *)
(* service calls of services/geminiService (src/unnamed/part_001), and the *)
(* upload orchestration and PCM decoding of App.tsx (src/unnamed/part_000).*)
(***************************************************************************)
EXTENDS Integers, Sequences, FiniteSets, TLC

VARIABLES rt,       \* one withRetry invocation: its inputs and its outcome
          ana,      \* one analyzeArtifact attempt: the response and the outcome
          img,      \* one generateImage attempt: the response and the outcome
          pcm,      \* one decodeAudioData call: the bytes and the outcome
          status,   \* App state: AppStatus
          hasKey,   \* App state: credential flag
          data,     \* App state: ReconstructionData
          error,    \* App state: user-facing error message
          uploads,  \* per accepted processFile call: position, remote requests
          nextId,   \* number of accepted processFile calls so far
          pendingFile,    \* App state: a file waits in the warning modal
          keyCheck,       \* position of the mount effect checkKey
          selecting,      \* openSelectKey calls not yet resolved
          isPlaying,      \* App state: playback flag
          audioSourceRef, \* audioSourceRef.current: Null or a source
          audioSources    \* the buffer sources created so far

keyVars == <<keyCheck, selecting>>
audioVars == <<isPlaying, audioSourceRef, audioSources>>
appVars == <<status, hasKey, data, error, uploads, nextId, pendingFile,
             keyCheck, selecting, isPlaying, audioSourceRef, audioSources>>
vars == <<rt, ana, img, pcm, status, hasKey, data, error, uploads, nextId,
          pendingFile, keyCheck, selecting, isPlaying, audioSourceRef,
          audioSources>>

----------------------------------------------------------------------------
(* JavaScript values: optional fields and strings.                         *)

\* An optional field is <<>> when undefined and <<v>> when it holds v.
Undefined == <<>>
Some(v) == <<v>>

\* A string is the sequence of its characters, so that includes() and
\* toLowerCase() are computed and not assumed.
Str500 == <<"5","0","0">>
Str503 == <<"5","0","3">>
Str403 == <<"4","0","3">>
StrInternal == <<"i","n","t","e","r","n","a","l">>
StrPermission == <<"p","e","r","m","i","s","s","i","o","n">>
StrNotFound == <<"n","o","t"," ","f","o","u","n","d">>

\* String.prototype.includes
Includes(s, sub) ==
  \E i \in 0..(Len(s) - Len(sub)) : SubSeq(s, i + 1, i + Len(sub)) = sub

UpperCase == <<"A","B","C","D","E","F","G","H","I","J","K","L","M",
               "N","O","P","Q","R","S","T","U","V","W","X","Y","Z">>
LowerCase == <<"a","b","c","d","e","f","g","h","i","j","k","l","m",
               "n","o","p","q","r","s","t","u","v","w","x","y","z">>

LowerChar(c) ==
  IF \E i \in 1..Len(UpperCase) : UpperCase[i] = c
  THEN LowerCase[CHOOSE i \in 1..Len(UpperCase) : UpperCase[i] = c]
  ELSE c

\* String.prototype.toLowerCase
ToLowerCase(s) == [i \in 1..Len(s) |-> LowerChar(s[i])]

----------------------------------------------------------------------------
(* Errors a remote call can raise.                                         *)

Err(st, cd, msg) == [status |-> st, code |-> cd, message |-> msg]

\* {"error":{"code":500,"status":"INTERNAL"}} as the SDK surfaces it
ErrStatusInternal ==
  Err(Some("INTERNAL"), Undefined,
      Some(<<"I","n","t","e","r","n","a","l"," ","e","r","r","o","r">>))
ErrCode500 == Err(Undefined, Some(500), Undefined)
ErrMsg500 == Err(Undefined, Undefined, Some(<<"g","o","t"," ","5","0","0">>))
ErrCode503 == Err(Some("UNAVAILABLE"), Some(503), Some(<<"5","0","3"," ","b","u","s","y">>))
ErrMsgInternal ==
  Err(Undefined, Undefined, Some(<<"I","n","t","e","r","n","a","l"," ","e","r","r","o","r">>))
ErrForbidden ==
  Err(Some("PERMISSION_DENIED"), Some(403), Some(<<"4","0","3"," ","d","e","n","i","e","d">>))
\* new Error("Audio synthesis failed.")
ErrSynthesis ==
  Err(Undefined, Undefined,
      Some(<<"A","u","d","i","o"," ","s","y","n","t","h","e","s","i","s"," ",
             "f","a","i","l","e","d",".">>))

Errors == {ErrStatusInternal, ErrCode500, ErrMsg500, ErrCode503,
           ErrMsgInternal, ErrForbidden, ErrSynthesis}

NoError == Err(Undefined, Undefined, Undefined)
NoValue == "none"
Values == {"v1", "v2"}

----------------------------------------------------------------------------
(* withRetry                                                               *)

MAX_RETRIES == 2
INITIAL_BACKOFF == 1000

\* Largest retry count handed to withRetry in the model.
MaxRetries == 2
\* The wrapped operation is given one more behaviour than it can be asked for.
PlanLen == MaxRetries + 2

Delays == {INITIAL_BACKOFF, 250}

\* What one invocation of the wrapped operation does.
Return(v) == [kind |-> "return", value |-> v, error |-> NoError]
Throw(e) == [kind |-> "throw", value |-> NoValue, error |-> e]
Outcomes == {Return(v) : v \in Values} \cup {Throw(e) : e \in Errors}

\* The wrapped operation: its successive invocations' outcomes.
Plans == [1..PlanLen -> Outcomes]

IsTransient5xx(e) ==
  \/ e.status = Some("INTERNAL")
  \/ (e.code # Undefined /\ e.code[1] \in 500..599)
  \/ (e.message # Undefined /\ Includes(e.message[1], Str500))

IsTransient(e) ==
  \/ e.status = Some("INTERNAL")
  \/ e.code = Some(500)
  \/ (e.message # Undefined /\ Includes(e.message[1], Str500))

\* The outcome of withRetry with the number of invocations made of fn and the
\* delays slept, in order.
Settled(o, n, slept) ==
  [kind |-> o.kind, value |-> o.value, error |-> o.error,
   calls |-> n, sleeps |-> slept]

RECURSIVE withRetryNoDoubling(_, _, _)
withRetryNoDoubling(fn, retries, delay) ==
  LET o == Head(fn) IN
  IF o.kind = "return" THEN Settled(o, 1, <<>>)
  ELSE IF IsTransient(o.error) /\ retries > 0
       THEN LET r == withRetryNoDoubling(Tail(fn), retries - 1, delay)
            IN  Settled(r, r.calls + 1, <<delay>> \o r.sleeps)
       ELSE Settled(o, 1, <<>>)

RECURSIVE withRetryOneMore(_, _, _)
withRetryOneMore(fn, retries, delay) ==
  LET o == Head(fn) IN
  IF o.kind = "return" THEN Settled(o, 1, <<>>)
  ELSE IF IsTransient(o.error) /\ retries >= 0 /\ Len(fn) > 1
       THEN LET r == withRetryOneMore(Tail(fn), retries - 1, delay * 2)
            IN  Settled(r, r.calls + 1, <<delay>> \o r.sleeps)
       ELSE Settled(o, 1, <<>>)

RECURSIVE withRetryAnyError(_, _, _)
withRetryAnyError(fn, retries, delay) ==
  LET o == Head(fn) IN
  IF o.kind = "return" THEN Settled(o, 1, <<>>)
  ELSE IF retries > 0
       THEN LET r == withRetryAnyError(Tail(fn), retries - 1, delay * 2)
            IN  Settled(r, r.calls + 1, <<delay>> \o r.sleeps)
       ELSE Settled(o, 1, <<>>)

RECURSIVE withRetry(_, _, _)
withRetry(fn, retries, delay) ==
  LET o == Head(fn) IN                                   \* await fn()
  IF o.kind = "return" THEN Settled(o, 1, <<>>)
  ELSE IF IsTransient(o.error) /\ retries > 0
       THEN \* setTimeout(resolve, delay), then withRetry(fn, retries - 1, delay * 2)
            LET r == withRetry(Tail(fn), retries - 1, delay * 2)
            IN  Settled(r, r.calls + 1, <<delay>> \o r.sleeps)
       ELSE Settled(o, 1, <<>>)                          \* throw error

NotSettled == Settled(Return(NoValue), 0, <<>>)
NoCall == [phase |-> "idle", R |-> 0, D |-> 0, fn |-> <<>>, res |-> NotSettled]

\* withRetry(fn, R, D) has been called: the inputs of the call.
RetryCalls ==
  {[phase |-> "called", R |-> R, D |-> D, fn |-> fn, res |-> NotSettled] :
     R \in 0..MaxRetries, D \in Delays, fn \in Plans}

\* The promise returned by withRetry(fn, R, D) settles.
RetrySettle ==
  /\ rt.phase = "called"
  /\ rt' = [rt EXCEPT !.phase = "done", !.res = withRetry(rt.fn, rt.R, rt.D)]
  /\ UNCHANGED <<ana, img, pcm>>
  /\ UNCHANGED appVars

----------------------------------------------------------------------------
(* analyzeArtifact: what the wrapped operation does with one response.     *)

\* Most grounding chunks in a modelled response.
MaxChunks == 2

StrMuseum == <<"M","u","s","e","u","m"," ","D","a","t","a","b","a","s","e"," ",
               "E","n","t","r","y">>
Titles == {Undefined, Some(<<>>), Some(<<"T","1">>)}
Uris == {Some(<<"u","1">>), Some(<<"u","2">>)}

WebChunk(t, u) == [web |-> Some([title |-> t, uri |-> u])]
OtherChunk == [web |-> Undefined]
Chunks == {OtherChunk} \cup {WebChunk(t, u) : t \in Titles, u \in Uris}
ChunkLists == UNION {[1..n -> Chunks] : n \in 0..MaxChunks}

GroundingSource(t, u) == [title |-> t, uri |-> u]

\* The JSON documents a response text can hold. An object is described by the
\* members the orchestrator reads and by the sources member the model may add.
JsonObject(past, modern, src) ==
  [type |-> "object", pastReconstruction |-> past, modernRestoration |-> modern,
   sources |-> src]
JsonNull == [type |-> "null", pastReconstruction |-> FALSE,
             modernRestoration |-> FALSE, sources |-> Undefined]
EmptyObject == JsonObject(FALSE, FALSE, Undefined)
ModelSources == Some(<<GroundingSource(<<"h","a","l","l">>, Some(<<"u","9">>))>>)
JsonValues == {JsonNull, EmptyObject,
               JsonObject(TRUE, TRUE, Undefined), JsonObject(TRUE, TRUE, ModelSources),
               JsonObject(TRUE, FALSE, Undefined), JsonObject(FALSE, TRUE, Undefined)}

\* response.text: undefined, text that is not JSON, or the text of a document.
\* A text that is not JSON is described by its characters, because the
\* SyntaxError of JSON.parse quotes them.
StrOops == <<"o","o","p","s">>
StrError500 == <<"E","r","r","o","r"," ","5","0","0">>
NotJsonText(chars) == [wellFormed |-> FALSE, value |-> JsonNull, chars |-> chars]
NotJson == NotJsonText(StrOops)
NotJson500 == NotJsonText(StrError500)
JsonText(v) == [wellFormed |-> TRUE, value |-> v, chars |-> <<>>]
Texts == {Undefined, Some(NotJson), Some(NotJson500)}
         \cup {Some(JsonText(v)) : v \in JsonValues}

\* SyntaxError: Unexpected token 'o', "oops" is not valid JSON. The engine
\* builds the message from the offending text (V8 quotes the text, others
\* its line and column), so the message varies with the text.
SyntaxError(chars) ==
  Err(Undefined, Undefined,
      Some(<<"U","n","e","x","p","e","c","t","e","d"," ","t","o","k","e","n"," ">>
           \o chars
           \o <<" ","i","s"," ","n","o","t"," ","v","a","l","i","d"," ",
                "J","S","O","N">>))
ErrSyntax == SyntaxError(StrOops)
ErrTypeNull ==
  Err(Undefined, Undefined,
      Some(<<"C","a","n","n","o","t"," ","s","e","t"," ","p","r","o","p","e","r",
             "t","i","e","s"," ","o","f"," ","n","u","l","l">>))

\* JSON.parse
JSONparse(t) == IF t.wellFormed THEN Return(t.value) ELSE Throw(SyntaxError(t.chars))

\* response.candidates?.[0]?.groundingMetadata?.groundingChunks
Candidate(meta) == [groundingMetadata |-> meta]
Metadatas == {Undefined} \cup {Some([groundingChunks |-> c]) :
                                 c \in {Undefined} \cup {Some(l) : l \in ChunkLists}}
AnalyzeResponses ==
  [text : Texts, candidates : {<<>>} \cup {<<Candidate(m)>> : m \in Metadatas}]

GroundingChunksOf(response) ==
  IF response.candidates = <<>> THEN Undefined
  ELSE IF response.candidates[1].groundingMetadata = Undefined THEN Undefined
  ELSE response.candidates[1].groundingMetadata[1].groundingChunks

\* chunk.web.title || 'Museum Database Entry'
TitleOrDefault(t) == IF t = Undefined \/ t = Some(<<>>) THEN StrMuseum ELSE t[1]

RECURSIVE CollectSourcesAll(_)
CollectSourcesAll(chunks) ==
  IF chunks = <<>> THEN <<>>
  ELSE LET chunk == Head(chunks) IN
       (IF chunk.web # Undefined
        THEN <<GroundingSource(TitleOrDefault(chunk.web[1].title), chunk.web[1].uri)>>
        ELSE <<GroundingSource(StrMuseum, Undefined)>>)
       \o CollectSourcesAll(Tail(chunks))

\* groundingChunks.forEach(chunk => { if (chunk.web) sources.push(...) })
RECURSIVE CollectSources(_)
CollectSources(chunks) ==
  IF chunks = <<>> THEN <<>>
  ELSE LET chunk == Head(chunks) IN
       (IF chunk.web # Undefined
        THEN <<GroundingSource(TitleOrDefault(chunk.web[1].title), chunk.web[1].uri)>>
        ELSE <<>>)
       \o CollectSources(Tail(chunks))

\* The body handed to withRetry by analyzeArtifact, after the response arrived.
AnalyzeBody(response) ==
  LET text == IF response.text = Undefined THEN JsonText(EmptyObject)
              ELSE response.text[1]                      \* response.text || "{}"
      parsed == JSONparse(text)
      groundingChunks == GroundingChunksOf(response)
      sources == IF groundingChunks # Undefined
                 THEN CollectSources(groundingChunks[1]) ELSE <<>>
  IN  IF parsed.kind = "throw" THEN parsed
      ELSE IF parsed.value.type = "null" THEN Throw(ErrTypeNull)
      ELSE Return([parsed.value EXCEPT !.sources = Some(sources)])

NoAna == [phase |-> "idle", response |-> [text |-> Undefined, candidates |-> <<>>],
          res |-> Return(NoValue)]

\* generateContent has answered: the response the body is resumed with.
AnalyzeCalls ==
  {[phase |-> "called", response |-> r, res |-> Return(NoValue)] :
     r \in AnalyzeResponses}

\* The body runs from the response to its return or throw.
AnalyzeAttempt ==
  /\ ana.phase = "called"
  /\ ana' = [ana EXCEPT !.phase = "done", !.res = AnalyzeBody(ana.response)]
  /\ UNCHANGED <<rt, img, pcm>>
  /\ UNCHANGED appVars

----------------------------------------------------------------------------
(* generateImage: what the wrapped operation does with one response.       *)

\* Most content parts in a modelled response.
MaxParts == 3

StrDataUriPrefix == <<"d","a","t","a",":","i","m","a","g","e","/","p","n","g",
                      ";","b","a","s","e","6","4",",">>
Payloads == {<<"Q","U","J","D">>, <<"Z","g">>}
MimeTypes == {"image/png", "image/jpeg"}

TextPart == [inlineData |-> Undefined]
InlinePart(m, d) == [inlineData |-> Some([mimeType |-> m, data |-> d])]
Parts == {TextPart} \cup {InlinePart(m, d) : m \in MimeTypes, d \in Payloads}
PartLists == UNION {[1..n -> Parts] : n \in 0..MaxParts}

ImageCandidate(content) == [content |-> content]
ImageResponses ==
  [candidates : {<<>>, <<ImageCandidate(Undefined)>>}
                \cup {<<ImageCandidate(Some([parts |-> Some(l)]))>> : l \in PartLists}
                \cup {<<ImageCandidate(Some([parts |-> Undefined]))>>}]

\* new Error("Visual synthesis failed. The fragment might be too complex.")
ErrVisual ==
  Err(Undefined, Undefined,
      Some(<<"V","i","s","u","a","l"," ","s","y","n","t","h","e","s","i","s"," ",
             "f","a","i","l","e","d","."," ","T","h","e"," ","f","r","a","g","m",
             "e","n","t"," ","m","i","g","h","t"," ","b","e"," ","t","o","o"," ",
             "c","o","m","p","l","e","x",".">>))

\* response.candidates?.[0]?.content?.parts || []
PartsOf(response) ==
  IF response.candidates = <<>> THEN <<>>
  ELSE IF response.candidates[1].content = Undefined THEN <<>>
  ELSE IF response.candidates[1].content[1].parts = Undefined THEN <<>>
  ELSE response.candidates[1].content[1].parts[1]

RECURSIVE ScanPartsLast(_)
ScanPartsLast(parts) ==
  IF parts = <<>> THEN Throw(ErrVisual)
  ELSE LET part == parts[Len(parts)] IN
       IF part.inlineData # Undefined
       THEN Return(StrDataUriPrefix \o part.inlineData[1].data)
       ELSE ScanPartsLast(SubSeq(parts, 1, Len(parts) - 1))

\* for (const part of parts) if (part.inlineData) return `data:image/png;base64,...`
RECURSIVE ScanParts(_)
ScanParts(parts) ==
  IF parts = <<>> THEN Throw(ErrVisual)
  ELSE LET part == Head(parts) IN
       IF part.inlineData # Undefined
       THEN Return(StrDataUriPrefix \o part.inlineData[1].data)
       ELSE ScanParts(Tail(parts))

\* The body handed to withRetry by generateImage, after the response arrived.
ImageBody(response) == ScanParts(PartsOf(response))

NoImg == [phase |-> "idle", response |-> [candidates |-> <<>>], res |-> Return(NoValue)]

ImageCalls ==
  {[phase |-> "called", response |-> r, res |-> Return(NoValue)] :
     r \in ImageResponses}

ImageAttempt ==
  /\ img.phase = "called"
  /\ img' = [img EXCEPT !.phase = "done", !.res = ImageBody(img.response)]
  /\ UNCHANGED <<rt, ana, pcm>>
  /\ UNCHANGED appVars

----------------------------------------------------------------------------
(* decodeAudioData                                                         *)

\* Longest byte buffer and largest channel count decoded in the model.
MaxBytes == 8
MaxChannels == 2

SampleRate == 24000
Bytes == {0, 128, 255}
ByteBuffers == UNION {[1..n -> Bytes] : n \in 0..MaxBytes}

ErrRange ==
  Err(Undefined, Undefined,
      Some(<<"b","y","t","e"," ","l","e","n","g","t","h"," ","o","f"," ",
             "I","n","t","1","6","A","r","r","a","y"," ","s","h","o","u","l","d"," ",
             "b","e"," ","a"," ","m","u","l","t","i","p","l","e"," ","o","f"," ","2">>))
ErrNotSupported ==
  Err(Undefined, Undefined,
      Some(<<"N","o","t","S","u","p","p","o","r","t","e","d","E","r","r","o","r">>))

\* Two's complement reading of a little-endian byte pair.
ToInt16(lo, hi) ==
  LET u == lo + 256 * hi IN IF u >= 32768 THEN u - 65536 ELSE u

Int16ArrayTruncating(bytes) ==
  Return([i \in 1..(Len(bytes) \div 2) |-> ToInt16(bytes[2 * i - 1], bytes[2 * i])])

\* new Int16Array(data.buffer): a view exists only over an even byte length.
Int16Array(bytes) ==
  IF Len(bytes) % 2 # 0 THEN Throw(ErrRange)
  ELSE Return([i \in 1..(Len(bytes) \div 2) |-> ToInt16(bytes[2 * i - 1], bytes[2 * i])])

\* A sample is the exact quotient num / den; a Float32 holds int16 / 32768 exactly.
Sample(v) == [num |-> v, den |-> 32768]
NaN == [num |-> 0, den |-> 0]

\* ctx.createBuffer(numChannels, length, sampleRate): the length is converted
\* to an unsigned integer and a zero-length buffer is refused.
createBuffer(numChannels, lengthNum, lengthDen, sampleRate) ==
  LET length == lengthNum \div lengthDen IN
  IF length < 1 THEN Throw(ErrNotSupported)
  ELSE Return([numberOfChannels |-> numChannels, length |-> length,
               sampleRate |-> sampleRate,
               channelData |-> [c \in 1..numChannels |->
                                  [f \in 1..length |-> Sample(0)]]])

\* dataInt16[k] / 32768.0, NaN when k is past the end of the view
ReadSample(dataInt16, k) ==
  IF k + 1 <= Len(dataInt16) THEN Sample(dataInt16[k + 1]) ELSE NaN

decodeAudioDataNotInterleaved(bytes, sampleRate, numChannels) ==
  LET view == Int16Array(bytes) IN
  IF view.kind = "throw" THEN view
  ELSE LET dataInt16 == view.value
           created == createBuffer(numChannels, Len(dataInt16), numChannels, sampleRate)
       IN  IF created.kind = "throw" THEN created
           ELSE LET buffer == created.value IN
                Return([buffer EXCEPT !.channelData =
                  [c \in 1..numChannels |->
                     [f \in 1..buffer.length |->
                        ReadSample(dataInt16, (c - 1) * buffer.length + (f - 1))]]])

\* frameCount = dataInt16.length / numChannels is a quotient, not an integer:
\* frame i (from 0) is visited while i * numChannels < dataInt16.length, and a
\* store at or past buffer.length is dropped by the typed array.
decodeAudioData(bytes, sampleRate, numChannels) ==
  LET view == Int16Array(bytes) IN
  IF view.kind = "throw" THEN view
  ELSE LET dataInt16 == view.value
           created == createBuffer(numChannels, Len(dataInt16), numChannels, sampleRate)
       IN  IF created.kind = "throw" THEN created
           ELSE LET buffer == created.value IN
                Return([buffer EXCEPT !.channelData =
                  [c \in 1..numChannels |->
                     [f \in 1..buffer.length |->
                        IF (f - 1) * numChannels < Len(dataInt16)
                        THEN ReadSample(dataInt16, (f - 1) * numChannels + (c - 1))
                        ELSE buffer.channelData[c][f]]]])

NoPcm == [phase |-> "idle", bytes |-> <<>>, numChannels |-> 1, res |-> Return(NoValue)]

\* decodeAudioData(bytes, ctx, 24000, numChannels) has been called.
DecodeCalls ==
  {[phase |-> "called", bytes |-> b, numChannels |-> n, res |-> Return(NoValue)] :
     b \in ByteBuffers, n \in 1..MaxChannels}

Decode ==
  /\ pcm.phase = "called"
  /\ pcm' = [pcm EXCEPT !.phase = "done",
                        !.res = decodeAudioData(pcm.bytes, SampleRate, pcm.numChannels)]
  /\ UNCHANGED <<rt, ana, img>>
  /\ UNCHANGED appVars

----------------------------------------------------------------------------
(* generateSpeech: what the wrapped operation does with one response.      *)

\* A base64 audio payload is described by the bytes it decodes to; the empty
\* payload is the empty string.
AudioPayloads == {<<0, 128>>, <<255>>}

SpeechPart(d) == [inlineData |-> Some([data |-> d])]
SpeechResponses ==
  [candidates : {<<>>, <<ImageCandidate(Some([parts |-> Some(<<TextPart>>)]))>>,
                 <<ImageCandidate(Some([parts |-> Some(<<SpeechPart(Some(<<>>))>>)]))>>}
                \cup {<<ImageCandidate(Some([parts |-> Some(<<SpeechPart(Some(b))>>)]))>> :
                        b \in AudioPayloads}]

\* response.candidates?.[0]?.content?.parts?.[0]?.inlineData?.data
FirstPartData(response) ==
  LET parts == PartsOf(response) IN
  IF parts = <<>> THEN Undefined
  ELSE IF parts[1].inlineData = Undefined THEN Undefined
  ELSE parts[1].inlineData[1].data

\* The body handed to withRetry by generateSpeech, after the response arrived.
SpeechBody(response) ==
  LET base64Audio == FirstPartData(response) IN
  IF base64Audio = Undefined \/ base64Audio = Some(<<>>)      \* !base64Audio
  THEN Throw(ErrSynthesis)
  ELSE Return(base64Audio[1])

----------------------------------------------------------------------------
(* App: the upload orchestration of processFile.                           *)

\* Most processFile calls that get past the credential check in one behaviour,
\* and most of them whose reader.onload has not run to its end at one time.
MaxUploads == 2
MaxRunning == 2

Ids == 1..MaxUploads
ReqNames == {"analyze", "past", "present", "speech"}
GenNames == {"past", "present", "speech"}

StrRefused == Some(<<"A","P","I"," ","A","c","c","e","s","s"," ","R","e","f","u","s","e",
                  "d","."," ","P","l","e","a","s","e"," ","s","e","l","e","c","t"," ",
                  "a"," ","v","a","l","i","d"," ","p","a","i","d"," ","k","e","y",".">>)
StrHiccup == Some(<<"T","h","e"," ","A","I"," ","m","o","d","e","l"," ","e","n","c","o",
                 "u","n","t","e","r","e","d"," ","a"," ","t","e","m","p","o","r","a",
                 "r","y"," ","h","i","c","c","u","p","."," ","P","l","e","a","s","e",
                 " ","t","r","y"," ","a","g","a","i","n",".">>)
StrForensic == <<"F","o","r","e","n","s","i","c"," ","a","n","a","l","y","s","i","s",
               " ","f","a","i","l","e","d","."," ","T","h","e"," ","i","m","a","g",
               "e"," ","m","i","g","h","t"," ","b","e"," ","t","o","o"," ","b","l",
               "u","r","r","y"," ","o","r"," ","c","o","m","p","l","e","x",".">>
ErrTypeRead ==
  Err(Undefined, Undefined,
      Some(<<"C","a","n","n","o","t"," ","r","e","a","d"," ","p","r","o","p","e",
             "r","t","i","e","s"," ","o","f"," ","u","n","d","e","f","i","n","e",
             "d"," ","(","r","e","a","d","i","n","g"," ","'","v","i","s","u","a",
             "l","P","r","o","m","p","t","'",")">>))

\* data members: Null, the value the component is constructed with, or the
\* value produced for upload u.
Null == 0
Initial == -1
NoAudio == [upload |-> Null, bytes |-> <<>>]
EmptyData == [analysis |-> Null, pastImage |-> Null, presentImage |-> Null,
              originalImage |-> Null, audioBlob |-> NoAudio]

NoUpload ==
  [pc |-> "unused",
   req |-> [k \in ReqNames |-> "idle"],
   audio |-> <<>>,      \* the narration payload held until Promise.all settles
   wrote |-> <<>>,
   calls |-> [analyzeArtifact |-> 0, generateImage |-> 0, generateSpeech |-> 0]]

\* An upload whose reader.onload has run to its end holds no state of the
\* program any more; its record is dropped when the next upload is accepted.
Collected == [NoUpload EXCEPT !.pc = "collected"]

\* What the remote calls of the orchestrator can come to: every behaviour of
\* the wrapped operation over MAX_RETRIES + 1 invocations, run through withRetry.
ServicePlans(outcomes) == [1..(MAX_RETRIES + 1) -> outcomes]
ServiceResults(outcomes) ==
  {withRetry(p, MAX_RETRIES, INITIAL_BACKOFF) : p \in ServicePlans(outcomes)}

AppErrors == {ErrStatusInternal, ErrCode500, ErrMsgInternal, ErrForbidden}
AppAnalyzeResponses ==
  [text : {Some(NotJson), Some(NotJson500),
           Some(JsonText(JsonObject(TRUE, TRUE, Undefined))),
           Some(JsonText(JsonObject(TRUE, FALSE, Undefined))),
           Some(JsonText(JsonObject(FALSE, TRUE, Undefined)))},
   candidates : {<<>>}]
AppImageResponses ==
  [candidates : {<<>>, <<ImageCandidate(Some([parts |-> Some(<<InlinePart("image/png",
                                                     <<"Q","U","J","D">>)>>)]))>>}]

analyzeArtifactResults ==
  ServiceResults({Throw(e) : e \in AppErrors}
                 \cup {AnalyzeBody(r) : r \in AppAnalyzeResponses})
generateImageResults ==
  ServiceResults({Throw(e) : e \in AppErrors}
                 \cup {ImageBody(r) : r \in AppImageResponses})
AppSpeechResponses ==
  [candidates : {<<>>, <<ImageCandidate(Some([parts |-> Some(<<SpeechPart(Some(<<0, 128>>))>>)]))>>}]
generateSpeechResults ==
  ServiceResults({Throw(e) : e \in AppErrors}
                 \cup {SpeechBody(r) : r \in AppSpeechResponses})

ResultsOf(k) ==
  CASE k = "analyze" -> analyzeArtifactResults
    [] k = "speech" -> generateSpeechResults
    [] OTHER -> generateImageResults

\* One invocation of the closure a service hands to withRetry: generateContent
\* rejects, or it answers and the body runs on the response.
Rejects(e) == [kind |-> "rejects", error |-> e]
Responds(r) == [kind |-> "responds", response |-> r]
Attempts(responses) ==
  {Rejects(e) : e \in AppErrors} \cup {Responds(r) : r \in responses}
ResponsesOf(name) ==
  CASE name = "analyzeArtifact" -> AppAnalyzeResponses
    [] name = "generateImage" -> AppImageResponses
    [] name = "generateSpeech" -> AppSpeechResponses
BodyOf(name, response) ==
  CASE name = "analyzeArtifact" -> AnalyzeBody(response)
    [] name = "generateImage" -> ImageBody(response)
    [] name = "generateSpeech" -> SpeechBody(response)
AttemptOutcome(name, a) ==
  IF a.kind = "rejects" THEN Throw(a.error) ELSE BodyOf(name, a.response)

\* A call of one of the three services: withRetry(closure) with the defaults.
ServiceCalls(name) ==
  {[phase |-> "called", name |-> name, attempts |-> as,
    fn |-> [i \in 1..(MAX_RETRIES + 1) |-> AttemptOutcome(name, as[i])],
    R |-> MAX_RETRIES, D |-> INITIAL_BACKOFF, res |-> NotSettled] :
     as \in [1..(MAX_RETRIES + 1) -> Attempts(ResponsesOf(name))]}

\* The catch block of reader.onload: the user-facing message and the key flag.
CatchMessage(err) ==
  LET msg == IF err.message = Undefined THEN <<>> ELSE ToLowerCase(err.message[1]) IN
  IF Includes(msg, StrPermission) \/ Includes(msg, Str403) \/ Includes(msg, StrNotFound)
  THEN StrRefused
  ELSE IF Includes(msg, Str500) \/ Includes(msg, StrInternal)
  THEN StrHiccup
  ELSE IF err.message = Undefined \/ err.message = Some(<<>>)
       THEN Some(StrForensic) ELSE err.message

CatchClearsKey(err) ==
  LET msg == IF err.message = Undefined THEN <<>> ELSE ToLowerCase(err.message[1]) IN
  Includes(msg, StrPermission) \/ Includes(msg, Str403) \/ Includes(msg, StrNotFound)

\* The argument list of Promise.all is evaluated left to right: each call
\* starts its request, and reading visualPrompt of a missing member throws.
LaunchRequestsOneByOne(up, analysis) ==
  IF ~analysis.pastReconstruction THEN [up |-> up, threw |-> TRUE]
  ELSE [up |-> [up EXCEPT !.req["past"] = "inflight",
                          !.calls.generateImage = @ + 1],
        threw |-> FALSE]

LaunchRequests(up, analysis) ==
  IF ~analysis.pastReconstruction THEN [up |-> up, threw |-> TRUE]
  ELSE IF ~analysis.modernRestoration
  THEN [up |-> [up EXCEPT !.req["past"] = "inflight",
                          !.calls.generateImage = @ + 1],
        threw |-> TRUE]
  ELSE [up |-> [up EXCEPT !.req["past"] = "inflight",
                          !.req["present"] = "inflight",
                          !.req["speech"] = "inflight",
                          !.calls.generateImage = @ + 2,
                          !.calls.generateSpeech = @ + 1],
        threw |-> FALSE]

\* setData(prev => ({...prev, pastImage, presentImage, audioBlob}))
WriteResults(prev, u, audio) ==
  [prev EXCEPT !.pastImage = u, !.presentImage = u,
               !.audioBlob = [upload |-> u, bytes |-> audio]]

\* What the catch block keeps of the results its upload already holds.
CatchDataKeepsSiblings(prev, up, u) ==
  [prev EXCEPT !.pastImage = IF up.req["past"] = "fulfilled" THEN u ELSE @,
               !.presentImage = IF up.req["present"] = "fulfilled" THEN u ELSE @]

CatchData(prev, up, u) == prev

\* The errors that can reach the catch block, with what it makes of each.
Thrown(results) == {r.error : r \in {x \in results : x.kind = "throw"}}
CaughtErrors ==
  Thrown(analyzeArtifactResults) \cup Thrown(generateImageResults)
  \cup Thrown(generateSpeechResults) \cup {ErrTypeRead}
Caught == [e \in CaughtErrors |->
             [message |-> CatchMessage(e), clearsKey |-> CatchClearsKey(e)]]

\* catch (err) { ... setStatus('error') }
CatchBlock(err) ==
  /\ error' = Caught[err].message
  /\ hasKey' = IF Caught[err].clearsKey THEN FALSE ELSE hasKey
  /\ status' = "error"

\* stopAudio()
StopAudioEffect ==
  /\ audioSources' = IF audioSourceRef # Null /\ audioSources[audioSourceRef] = "playing"
                THEN [audioSources EXCEPT ![audioSourceRef] = "finishing"]
                ELSE audioSources
  /\ audioSourceRef' = Null
  /\ isPlaying' = FALSE

\* Most openSelectKey dialogs awaited at once.
MaxSelecting == 1

\* handleOpenKeySelector(), up to its await. window.aistudio is taken to exist:
\* without it the handler and the mount effect return at once, which is a
\* stuttering step of this model.
OpenKeySelectorEffect == selecting' = selecting + 1

\* processFile(file)
ProcessFile ==
  IF ~hasKey
  THEN /\ selecting < MaxSelecting
       /\ OpenKeySelectorEffect
       /\ UNCHANGED <<status, hasKey, data, error, uploads, nextId, keyCheck>>
  ELSE /\ nextId < MaxUploads
       /\ Cardinality({u \in Ids : uploads[u].pc \in
                         {"reading", "analyzing", "generating"}}) < MaxRunning
       /\ nextId' = nextId + 1
       /\ status' = "analyzing"
       /\ error' = Undefined
       /\ uploads' = [u \in Ids |->
                         IF u = nextId + 1
                         THEN [NoUpload EXCEPT !.pc = "reading",
                                               !.wrote = <<"analyzing">>]
                         ELSE IF uploads[u].pc = "done" THEN Collected
                         ELSE uploads[u]]
       /\ UNCHANGED <<hasKey, data, keyVars>>

\* handleFileUpload: the file input is rendered while status is idle and the
\* key flag is set; the mode switch is on the same screen.
HandleFileUpload(artifactMode) ==
  /\ status = "idle" /\ hasKey /\ ~pendingFile
  /\ IF artifactMode = "new"
     THEN /\ pendingFile' = TRUE
          /\ UNCHANGED <<status, hasKey, data, error, uploads, nextId, keyVars>>
     ELSE /\ ProcessFile
          /\ UNCHANGED pendingFile
  /\ UNCHANGED audioVars
  /\ UNCHANGED <<rt, ana, img, pcm>>

ConfirmUpload ==
  /\ pendingFile
  /\ ProcessFile
  /\ pendingFile' = FALSE
  /\ UNCHANGED audioVars
  /\ UNCHANGED <<rt, ana, img, pcm>>

CancelUpload ==
  /\ pendingFile
  /\ pendingFile' = FALSE
  /\ UNCHANGED <<status, hasKey, data, error, uploads, nextId, keyVars, audioVars>>
  /\ UNCHANGED <<rt, ana, img, pcm>>

\* reader.onload, up to the await of analyzeArtifact
ReaderLoad(u) ==
  /\ uploads[u].pc = "reading"
  /\ data' = [data EXCEPT !.originalImage = u]
  /\ uploads' = [uploads EXCEPT ![u].pc = "analyzing",
                                ![u].req["analyze"] = "inflight",
                                ![u].calls.analyzeArtifact = @ + 1]
  /\ UNCHANGED <<status, hasKey, error, nextId, pendingFile, keyVars, audioVars>>
  /\ UNCHANGED <<rt, ana, img, pcm>>

\* analyzeArtifact settles and reader.onload runs on to its next await or end
AnalyzeSettles(u, r) ==
  /\ uploads[u].req["analyze"] = "inflight"
  /\ IF r.kind = "throw"
     THEN /\ uploads' = [uploads EXCEPT ![u].req["analyze"] = "rejected",
                                        ![u].pc = "done",
                                        ![u].wrote = Append(@, "error")]
          /\ CatchBlock(r.error)
          /\ data' = CatchData(data, uploads[u], u)
     ELSE LET settled == [uploads[u] EXCEPT !.req["analyze"] = "fulfilled"]
              launched == LaunchRequests(settled, r.value)
              withAnalysis == [data EXCEPT !.analysis = u]
          IN  IF launched.threw
              THEN /\ uploads' = [uploads EXCEPT ![u] =
                         [launched.up EXCEPT !.pc = "done",
                                             !.wrote = @ \o <<"generating", "error">>]]
                   /\ CatchBlock(ErrTypeRead)
                   /\ data' = CatchData(withAnalysis, launched.up, u)
              ELSE /\ uploads' = [uploads EXCEPT ![u] =
                         [launched.up EXCEPT !.pc = "generating",
                                             !.wrote = Append(@, "generating")]]
                   /\ status' = "generating"
                   /\ data' = withAnalysis
                   /\ UNCHANGED <<error, hasKey>>
  /\ UNCHANGED <<nextId, pendingFile, keyVars, audioVars>>
  /\ UNCHANGED <<rt, ana, img, pcm>>

\* Promise.any in place of Promise.all: fulfilled with the first fulfilment.
AllFulfilledAny(req) == \E k \in GenNames : req[k] = "fulfilled"

\* Promise.all: fulfilled once all three are, rejected with the first rejection.
AllFulfilled(req) == \A k \in GenNames : req[k] = "fulfilled"

\* The three requests awaited with Promise.allSettled: a rejection is looked at
\* only once no sibling is in flight.
GenSettlesAllSettled(u, k, r) ==
  /\ uploads[u].req[k] = "inflight"
  /\ uploads[u].pc = "generating"
  /\ LET up == [uploads[u] EXCEPT
                  !.req[k] = IF r.kind = "throw" THEN "rejected" ELSE "fulfilled",
                  !.audio = IF k = "speech" /\ r.kind = "return" THEN r.value ELSE @]
     IN  IF \E j \in GenNames : up.req[j] = "inflight"
         THEN /\ uploads' = [uploads EXCEPT ![u] = up]
              /\ UNCHANGED <<status, data, error, hasKey>>
         ELSE IF AllFulfilled(up.req)
         THEN /\ uploads' = [uploads EXCEPT ![u] =
                    [up EXCEPT !.pc = "done", !.audio = <<>>,
                               !.wrote = Append(@, "complete")]]
              /\ data' = WriteResults(data, u, up.audio)
              /\ status' = "complete"
              /\ UNCHANGED <<error, hasKey>>
         ELSE /\ uploads' = [uploads EXCEPT ![u] =
                    [up EXCEPT !.pc = "done", !.audio = <<>>,
                               !.wrote = Append(@, "error")]]
              /\ CatchBlock(IF r.kind = "throw" THEN r.error ELSE ErrSynthesis)
              /\ data' = CatchData(data, up, u)
  /\ UNCHANGED <<nextId, pendingFile, keyVars, audioVars>>
  /\ UNCHANGED <<rt, ana, img, pcm>>

\* One of the three requests settles while reader.onload awaits Promise.all;
\* if this settles Promise.all, reader.onload runs on to its end. A request
\* that settles after Promise.all has rejected runs no code of the program:
\* it stays "inflight" here, which then reads "not observed".
GenSettles(u, k, r) ==
  /\ uploads[u].req[k] = "inflight"
  /\ uploads[u].pc = "generating"
  /\ LET up == [uploads[u] EXCEPT
                  !.req[k] = IF r.kind = "throw" THEN "rejected" ELSE "fulfilled",
                  !.audio = IF k = "speech" /\ r.kind = "return" THEN r.value ELSE @]
     IN  IF r.kind = "throw"
         THEN /\ uploads' = [uploads EXCEPT ![u] =
                    [up EXCEPT !.pc = "done", !.audio = <<>>,
                               !.wrote = Append(@, "error")]]
              /\ CatchBlock(r.error)
              /\ data' = CatchData(data, up, u)
         ELSE IF AllFulfilled(up.req)
         THEN /\ uploads' = [uploads EXCEPT ![u] =
                    [up EXCEPT !.pc = "done", !.audio = <<>>,
                               !.wrote = Append(@, "complete")]]
              /\ data' = WriteResults(data, u, up.audio)
              /\ status' = "complete"
              /\ UNCHANGED <<error, hasKey>>
         ELSE /\ uploads' = [uploads EXCEPT ![u] = up]
              /\ UNCHANGED <<status, data, error, hasKey>>
  /\ UNCHANGED <<nextId, pendingFile, keyVars, audioVars>>
  /\ UNCHANGED <<rt, ana, img, pcm>>

\* reset() written as an update of the previous data, which keeps audioBlob
ResetEffectKeepsAudio ==
  /\ StopAudioEffect
  /\ status' = "idle"
  /\ data' = [EmptyData EXCEPT !.audioBlob = data.audioBlob]
  /\ error' = Undefined
  /\ UNCHANGED <<hasKey, uploads, nextId, pendingFile, keyVars>>
  /\ UNCHANGED <<rt, ana, img, pcm>>

\* reset()
ResetEffect ==
  /\ StopAudioEffect
  /\ status' = "idle"
  /\ data' = EmptyData
  /\ error' = Undefined
  /\ UNCHANGED <<hasKey, uploads, nextId, pendingFile, keyVars>>
  /\ UNCHANGED <<rt, ana, img, pcm>>

\* the Reset System and New Fragment buttons
Reset ==
  /\ status # "idle" /\ ~pendingFile
  /\ ResetEffect

\* retryScan: the file input is not mounted on the error screen
RetryScan ==
  /\ status = "error" /\ ~pendingFile
  /\ ResetEffect

----------------------------------------------------------------------------
(* App: the credential flag.                                               *)

\* the mount effect: hasSelectedApiKey() answers
CheckKey(selected) ==
  /\ keyCheck = "pending"
  /\ keyCheck' = "done"
  /\ hasKey' = selected
  /\ UNCHANGED <<status, data, error, uploads, nextId, pendingFile,
                 selecting, audioVars>>
  /\ UNCHANGED <<rt, ana, img, pcm>>

\* the Set API Credentials button, rendered while the key flag is clear
HandleOpenKeySelector ==
  /\ ~hasKey /\ ~pendingFile
  /\ selecting < MaxSelecting
  /\ OpenKeySelectorEffect
  /\ UNCHANGED <<status, hasKey, data, error, uploads, nextId, pendingFile,
                 keyCheck, audioVars>>
  /\ UNCHANGED <<rt, ana, img, pcm>>

\* openSelectKey() resolves: setHasKey(true)
KeySelected ==
  /\ selecting > 0
  /\ selecting' = selecting - 1
  /\ hasKey' = TRUE
  /\ UNCHANGED <<status, data, error, uploads, nextId, pendingFile,
                 keyCheck, audioVars>>
  /\ UNCHANGED <<rt, ana, img, pcm>>

----------------------------------------------------------------------------
(* App: narration playback.                                                *)

\* Most buffer sources created in one behaviour.
MaxSources == 4

Created == Cardinality({i \in 1..MaxSources : audioSources[i] # "unused"})

\* playNarrative: the Listen button is rendered while status is complete
PlayNarrative ==
  /\ status = "complete" /\ ~pendingFile
  /\ IF isPlaying THEN StopAudioEffect /\ UNCHANGED pcm
     ELSE IF data.audioBlob.upload = Null THEN UNCHANGED audioVars /\ UNCHANGED pcm
     ELSE LET decoded == decodeAudioData(data.audioBlob.bytes, SampleRate, 1) IN
          /\ pcm' = [phase |-> "done", bytes |-> data.audioBlob.bytes,
                     numChannels |-> 1, res |-> decoded]
          /\ IF decoded.kind = "throw"
             THEN /\ isPlaying' = FALSE              \* catch: console.error
                  /\ UNCHANGED <<audioSourceRef, audioSources>>
             ELSE /\ Created < MaxSources
                  /\ audioSources' = [audioSources EXCEPT ![Created + 1] = "playing"]
                  /\ audioSourceRef' = Created + 1
                  /\ isPlaying' = TRUE
  /\ UNCHANGED <<status, hasKey, data, error, uploads, nextId, pendingFile, keyVars>>
  /\ UNCHANGED <<rt, ana, img>>

\* the close button of the playback panel, rendered while isPlaying
StopAudio ==
  /\ isPlaying /\ ~pendingFile
  /\ StopAudioEffect
  /\ UNCHANGED <<status, hasKey, data, error, uploads, nextId, pendingFile, keyVars>>
  /\ UNCHANGED <<rt, ana, img, pcm>>

\* a source plays its buffer to the end
PlaybackFinishes(i) ==
  /\ audioSources[i] = "playing"
  /\ audioSources' = [audioSources EXCEPT ![i] = "finishing"]
  /\ UNCHANGED <<isPlaying, audioSourceRef>>
  /\ UNCHANGED <<status, hasKey, data, error, uploads, nextId, pendingFile, keyVars>>
  /\ UNCHANGED <<rt, ana, img, pcm>>

\* source.onended, dispatched after the source finished or was stopped
OnEnded(i) ==
  /\ audioSources[i] = "finishing"
  /\ audioSources' = [audioSources EXCEPT ![i] = "ended"]
  /\ isPlaying' = FALSE
  /\ audioSourceRef' = Null
  /\ UNCHANGED <<status, hasKey, data, error, uploads, nextId, pendingFile, keyVars>>
  /\ UNCHANGED <<rt, ana, img, pcm>>

----------------------------------------------------------------------------
(* Specifications.                                                         *)

\* useState initial values of App
InitialData == [analysis |-> Initial, pastImage |-> Initial, presentImage |-> Null,
                originalImage |-> Initial, audioBlob |-> NoAudio]

InitApp ==
  /\ status = "complete"
  /\ hasKey = TRUE
  /\ data = InitialData
  /\ error = Undefined
  /\ uploads = [u \in Ids |-> NoUpload]
  /\ nextId = 0
  /\ pendingFile = FALSE
  /\ keyCheck = "pending"
  /\ selecting = 0
  /\ isPlaying = FALSE
  /\ audioSourceRef = Null
  /\ audioSources = [i \in 1..MaxSources |-> "unused"]

NoCalls == rt = NoCall /\ ana = NoAna /\ img = NoImg /\ pcm = NoPcm

Init == InitApp /\ NoCalls

Next ==
  \/ \E m \in {"old", "new"} : HandleFileUpload(m)
  \/ ConfirmUpload
  \/ CancelUpload
  \/ \E u \in Ids : ReaderLoad(u)
  \/ \E u \in Ids : \E r \in analyzeArtifactResults : AnalyzeSettles(u, r)
  \/ \E u \in Ids : \E k \in GenNames : \E r \in ResultsOf(k) : GenSettles(u, k, r)
  \/ Reset
  \/ RetryScan
  \/ \E b \in BOOLEAN : CheckKey(b)
  \/ HandleOpenKeySelector
  \/ KeySelected

\* The uploads of one session. Playback reads status and data and writes only
\* the playback state, which no action above reads, so it is left to SpecPlayback.
Spec == Init /\ [][Next]_vars

\* Playback, from the state a first upload leaves when it completes.
InitPlayback ==
  /\ NoCalls
  /\ status = "complete" /\ hasKey = TRUE /\ error = Undefined
  /\ \E b \in AudioPayloads : data = WriteResults(
          [EmptyData EXCEPT !.analysis = 1, !.originalImage = 1], 1, b)
  /\ uploads = [u \in Ids |->
        IF u = 1
        THEN [pc |-> "done", req |-> [k \in ReqNames |-> "fulfilled"], audio |-> <<>>,
              wrote |-> <<"analyzing", "generating", "complete">>,
              calls |-> [analyzeArtifact |-> 1, generateImage |-> 2,
                         generateSpeech |-> 1]]
        ELSE NoUpload]
  /\ nextId = 1 /\ pendingFile = FALSE /\ keyCheck = "done" /\ selecting = 0
  /\ isPlaying = FALSE /\ audioSourceRef = Null
  /\ audioSources = [i \in 1..MaxSources |-> "unused"]

NextPlayback ==
  \/ PlayNarrative
  \/ StopAudio
  \/ \E i \in 1..MaxSources : PlaybackFinishes(i)
  \/ \E i \in 1..MaxSources : OnEnded(i)
  \/ Reset

SpecPlayback == InitPlayback /\ [][NextPlayback]_vars

\* One call of a service awaited in the try block of reader.onload, from its
\* invocation to its settling and, when it rejects, through the catch block.
ServiceCaught ==
  /\ rt.phase = "done" /\ rt.res.kind = "throw"
  /\ rt' = [rt EXCEPT !.phase = "caught"]
  /\ CatchBlock(rt.res.error)
  /\ UNCHANGED <<data, uploads, nextId, pendingFile, keyVars, audioVars>>
  /\ UNCHANGED <<ana, img, pcm>>

InitService ==
  /\ InitApp
  /\ ana = NoAna /\ img = NoImg /\ pcm = NoPcm
  /\ \/ rt \in ServiceCalls("analyzeArtifact")
     \/ rt \in ServiceCalls("generateImage")
     \/ rt \in ServiceCalls("generateSpeech")
NextService == RetrySettle \/ ServiceCaught
SpecService == InitService /\ [][NextService]_vars

InitRetry ==
  /\ InitApp
  /\ rt \in RetryCalls /\ ana = NoAna /\ img = NoImg /\ pcm = NoPcm
NextRetry == RetrySettle
SpecRetry == InitRetry /\ [][NextRetry]_vars

InitAnalyze ==
  /\ InitApp
  /\ rt = NoCall /\ ana \in AnalyzeCalls /\ img = NoImg /\ pcm = NoPcm
NextAnalyze == AnalyzeAttempt
SpecAnalyze == InitAnalyze /\ [][NextAnalyze]_vars

InitImage ==
  /\ InitApp
  /\ rt = NoCall /\ ana = NoAna /\ img \in ImageCalls /\ pcm = NoPcm
NextImage == ImageAttempt
SpecImage == InitImage /\ [][NextImage]_vars

InitDecode ==
  /\ InitApp
  /\ rt = NoCall /\ ana = NoAna /\ img = NoImg /\ pcm \in DecodeCalls
NextDecode == Decode
SpecDecode == InitDecode /\ [][NextDecode]_vars

----------------------------------------------------------------------------
(* Properties of withRetry, checked under SpecRetry.                       *)

Pow2(n) == 2 ^ n

\* fn fails transiently on its first k invocations and returns on the next
FailsThenSucceeds(fn, k) ==
  /\ \A i \in 1..k : fn[i].kind = "throw" /\ IsTransient(fn[i].error)
  /\ fn[k + 1].kind = "return"

\* C1: when the operation fails transiently exactly k <= R times and then
\* succeeds, withRetry returns that success value after exactly k + 1
\* invocations, having slept D * 2^(i-1) before the i-th retry and nothing more.
C1_RetryThenSuccess ==
  rt.phase = "done" =>
    \A k \in 0..rt.R :
      FailsThenSucceeds(rt.fn, k) =>
        /\ rt.res.kind = "return"
        /\ rt.res.value = rt.fn[k + 1].value
        /\ rt.res.calls = k + 1
        /\ Len(rt.res.sleeps) = k
        /\ \A i \in 1..k : rt.res.sleeps[i] = rt.D * Pow2(i - 1)

C1_Witness ==
  /\ rt.phase = "done" /\ rt.R = MAX_RETRIES /\ rt.D = INITIAL_BACKOFF
  /\ FailsThenSucceeds(rt.fn, 2)
  /\ rt.res.kind = "return" /\ rt.res.calls = 3
  /\ rt.res.sleeps = <<1000, 2000>>

\* C2: when the operation fails transiently on each of its first R + 1
\* invocations, withRetry raises the error of invocation R + 1 after exactly
\* R + 1 invocations; in no case is the operation invoked more than R + 1 times.
C2_RetriesExhausted ==
  rt.phase = "done" =>
    /\ rt.res.calls <= rt.R + 1
    /\ (\A i \in 1..(rt.R + 1) :
          rt.fn[i].kind = "throw" /\ IsTransient(rt.fn[i].error))
       => /\ rt.res.kind = "throw"
          /\ rt.res.calls = rt.R + 1
          /\ rt.res.error = rt.fn[rt.R + 1].error

C2_Witness ==
  /\ rt.phase = "done" /\ rt.R = MAX_RETRIES
  /\ \A i \in 1..PlanLen : rt.fn[i].kind = "throw" /\ IsTransient(rt.fn[i].error)
  /\ rt.fn[1].error # rt.fn[3].error /\ rt.fn[4].error # rt.fn[3].error
  /\ rt.res.kind = "throw" /\ rt.res.calls = 3 /\ rt.res.error = rt.fn[3].error

\* C3: a non-transient failure of an invocation is raised at once and
\* unchanged: no sleep follows it and no further invocation is made, so a
\* non-transient failure of the first invocation ends the call after exactly
\* one invocation and no sleep, whatever R is.
C3_NonTransientImmediate ==
  rt.phase = "done" =>
    \A j \in 1..(rt.R + 1) :
      ( /\ \A i \in 1..(j - 1) : rt.fn[i].kind = "throw" /\ IsTransient(rt.fn[i].error)
        /\ rt.fn[j].kind = "throw" /\ ~IsTransient(rt.fn[j].error) )
      => /\ rt.res.kind = "throw"
         /\ rt.res.error = rt.fn[j].error
         /\ rt.res.calls = j
         /\ Len(rt.res.sleeps) = j - 1

C3_Witness ==
  /\ rt.phase = "done" /\ rt.R = MAX_RETRIES
  /\ rt.fn[1] = Throw(ErrForbidden) /\ rt.fn[2].kind = "return"
  /\ rt.res.kind = "throw" /\ rt.res.error = ErrForbidden
  /\ rt.res.calls = 1 /\ rt.res.sleeps = <<>>

Digits == {"0", "1", "2", "3", "4", "5", "6", "7", "8", "9"}
Names5xx(m) ==
  \E i \in 1..(Len(m) - 2) : m[i] = "5" /\ m[i + 1] \in Digits /\ m[i + 2] \in Digits

\* a failure of the 5xx class or "INTERNAL", by status, code or message
ServerSide(e) ==
  \/ e.status = Some("INTERNAL")
  \/ (e.code # Undefined /\ e.code[1] \in 500..599)
  \/ (e.message # Undefined /\
        (Names5xx(e.message[1]) \/ Includes(ToLowerCase(e.message[1]), StrInternal)))

\* C4 as stated: with retries remaining, a failure is retried exactly when its
\* status, code or message indicates a 5xx or "INTERNAL" failure.
C4_Original ==
  (rt.phase = "done" /\ rt.R > 0 /\ rt.fn[1].kind = "throw") =>
    ((rt.res.calls > 1) <=> ServerSide(rt.fn[1].error))

\* C4, amended: with retries remaining, a failure is retried exactly when its
\* status is "INTERNAL", its code is 500, or its message contains "500"; code
\* 503 and a message naming an internal error without "500" are not retried.
C4_TransientClass ==
  (rt.phase = "done" /\ rt.R > 0 /\ rt.fn[1].kind = "throw") =>
    LET e == rt.fn[1].error IN
    (rt.res.calls > 1) <=>
      \/ e.status = Some("INTERNAL")
      \/ e.code = Some(500)
      \/ (e.message # Undefined /\ Includes(e.message[1], Str500))

C4_Witness ==
  /\ rt.phase = "done" /\ rt.R = MAX_RETRIES
  /\ rt.fn[1] = Throw(ErrCode503)
  /\ rt.res.kind = "throw" /\ rt.res.error = ErrCode503 /\ rt.res.calls = 1

----------------------------------------------------------------------------
(* Properties of the service bodies, checked under SpecAnalyze, SpecImage. *)

HasWeb(chunk) == chunk.web # Undefined
HasInline(part) == part.inlineData # Undefined

WebChunksOf(response) ==
  LET g == GroundingChunksOf(response) IN
  IF g = Undefined THEN <<>> ELSE SelectSeq(g[1], HasWeb)

\* C7: every analysis returned carries a sources list with exactly one entry
\* per web grounding chunk, in the chunks' order (none without grounding
\* metadata), each with the chunk's uri and the chunk's title, or "Museum
\* Database Entry" when the chunk has no title text (missing or empty); a
\* sources member of the model's JSON does not survive.
C7_SourcesFromGrounding ==
  (ana.phase = "done" /\ ana.res.kind = "return") =>
    LET webs == WebChunksOf(ana.response)
        out == ana.res.value.sources
    IN  /\ out # Undefined
        /\ Len(out[1]) = Len(webs)
        /\ \A i \in 1..Len(webs) :
             /\ out[1][i].uri = webs[i].web[1].uri
             /\ out[1][i].title =
                  IF webs[i].web[1].title \in {Undefined, Some(<<>>)}
                  THEN StrMuseum ELSE webs[i].web[1].title[1]

C7_Witness ==
  /\ ana.phase = "done" /\ ana.res.kind = "return"
  /\ ana.response.text = Some(JsonText(JsonObject(TRUE, TRUE, ModelSources)))
  /\ GroundingChunksOf(ana.response) =
       Some(<<WebChunk(Some(<<"T","1">>), Some(<<"u","1">>)),
              WebChunk(Undefined, Some(<<"u","2">>))>>)
  /\ ana.res.value.sources =
       Some(<<GroundingSource(<<"T","1">>, Some(<<"u","1">>)),
              GroundingSource(StrMuseum, Some(<<"u","2">>))>>)

\* C8: generateImage returns "data:image/png;base64," followed by the payload
\* of the first part, in part order, that carries inline data, and fails with
\* the synthesis-failure error when no part carries inline data.
C8_FirstInlinePart ==
  img.phase = "done" =>
    LET inl == SelectSeq(PartsOf(img.response), HasInline) IN
    IF inl # <<>>
    THEN img.res = Return(StrDataUriPrefix \o inl[1].inlineData[1].data)
    ELSE img.res = Throw(ErrVisual)

C8_Witness ==
  /\ img.phase = "done"
  /\ PartsOf(img.response) =
       <<TextPart, InlinePart("image/png", <<"Q","U","J","D">>),
         InlinePart("image/jpeg", <<"Z","g">>)>>
  /\ img.res = Return(StrDataUriPrefix \o <<"Q","U","J","D">>)

----------------------------------------------------------------------------
(* Properties of decodeAudioData, checked under SpecDecode.                *)

\* the 16-bit signed samples of an even-length little-endian buffer
SampleAt(bytes, k) == ToInt16(bytes[2 * k + 1], bytes[2 * k + 2])

\* the buffer holds n frames per channel, de-interleaved from the bytes
HoldsFrames(bytes, numChannels, n) ==
  /\ pcm.res.kind = "return"
  /\ pcm.res.value.length = n
  /\ pcm.res.value.numberOfChannels = numChannels
  /\ \A c \in 0..(numChannels - 1) :
       /\ Len(pcm.res.value.channelData[c + 1]) = n
       /\ \A f \in 0..(n - 1) :
            pcm.res.value.channelData[c + 1][f + 1] =
              [num |-> SampleAt(bytes, f * numChannels + c), den |-> 32768]

\* C9 as stated: every buffer whose length is a multiple of 2 * channels is
\* decoded to byteLength / (2 * channels) frames per channel.
C9_Original ==
  (pcm.phase = "done" /\ Len(pcm.bytes) % (2 * pcm.numChannels) = 0) =>
    HoldsFrames(pcm.bytes, pcm.numChannels, Len(pcm.bytes) \div (2 * pcm.numChannels))

\* C9, amended: every non-empty buffer whose length is a multiple of
\* 2 * channels is decoded to byteLength / (2 * channels) frames per channel,
\* the sample at frame f of channel c being the signed 16-bit sample at
\* interleaved index f * channels + c divided by 32768; the empty buffer is
\* refused by createBuffer.
C9_DecodeFrames ==
  (pcm.phase = "done" /\ Len(pcm.bytes) % (2 * pcm.numChannels) = 0) =>
    IF Len(pcm.bytes) > 0
    THEN HoldsFrames(pcm.bytes, pcm.numChannels,
                     Len(pcm.bytes) \div (2 * pcm.numChannels))
    ELSE pcm.res = Throw(ErrNotSupported)

C9_Witness ==
  /\ pcm.phase = "done" /\ pcm.numChannels = 2
  /\ pcm.bytes = <<0, 128, 255, 255, 128, 0, 255, 0>>
  /\ pcm.res.kind = "return" /\ pcm.res.value.length = 2
  /\ pcm.res.value.channelData =
       << <<Sample(-32768), Sample(128)>>, <<Sample(-1), Sample(255)>> >>

\* C10 as stated: a buffer whose length is not a multiple of 2 * channels is
\* decoded without error to its complete frames.
C10_Original ==
  (pcm.phase = "done" /\ Len(pcm.bytes) % (2 * pcm.numChannels) # 0) =>
    HoldsFrames(pcm.bytes, pcm.numChannels, Len(pcm.bytes) \div (2 * pcm.numChannels))

\* C10, amended: for a length that is not a multiple of 2 * channels nothing
\* is validated by the decoder itself, and an even length with at least one
\* complete frame is decoded without error to its complete frames, the partial
\* frame dropped; an odd length makes the 16-bit view raise a RangeError, and
\* an even length short of one frame makes createBuffer raise.
C10_PartialFrame ==
  (pcm.phase = "done" /\ Len(pcm.bytes) % (2 * pcm.numChannels) # 0) =>
    IF Len(pcm.bytes) % 2 # 0 THEN pcm.res = Throw(ErrRange)
    ELSE IF Len(pcm.bytes) < 2 * pcm.numChannels THEN pcm.res = Throw(ErrNotSupported)
    ELSE HoldsFrames(pcm.bytes, pcm.numChannels,
                     Len(pcm.bytes) \div (2 * pcm.numChannels))

C10_Witness ==
  /\ pcm.phase = "done" /\ pcm.numChannels = 2
  /\ pcm.bytes = <<0, 128, 255, 255, 128, 0>>
  /\ pcm.res.kind = "return" /\ pcm.res.value.length = 1
  /\ pcm.res.value.channelData = << <<Sample(-32768)>>, <<Sample(-1)>> >>

----------------------------------------------------------------------------
(* Properties of the orchestration, checked under Spec.                    *)

Live == {u \in Ids : uploads[u].pc \notin {"unused", "collected"}}
Last(q) == q[Len(q)]

\* C5: when one of the three concurrent requests of an upload fails, the
\* status becomes 'error' in that step and pastImage, presentImage and
\* audioBlob stay as they were, whatever its siblings have delivered; a result
\* of an upload enters the session data only in a step that writes all three
\* members, with all three requests fulfilled, so the three are always of the
\* same upload.
C5_AllOrNothing ==
  /\ [][\A u \in Ids :
          /\ ( /\ uploads[u].pc = "generating"
               /\ \E k \in GenNames : uploads'[u].req[k] = "rejected" )
             => /\ status' = "error"
                /\ data'.pastImage = data.pastImage
                /\ data'.presentImage = data.presentImage
                /\ data'.audioBlob = data.audioBlob
          /\ ( \/ (data'.pastImage = u /\ data.pastImage # u)
               \/ (data'.presentImage = u /\ data.presentImage # u)
               \/ (data'.audioBlob.upload = u /\ data.audioBlob.upload # u) )
             => /\ AllFulfilled(uploads'[u].req)
                /\ data'.pastImage = u /\ data'.presentImage = u
                /\ data'.audioBlob.upload = u
                /\ status' = "complete"
       ]_vars
  /\ [](\A u \in Ids :
          /\ (data.pastImage = u) = (data.presentImage = u)
          /\ (data.pastImage = u) = (data.audioBlob.upload = u))

\* narration failed while both images had succeeded
C5_Witness ==
  \E u \in Ids :
    /\ uploads[u].pc = "done"
    /\ uploads[u].req["speech"] = "rejected"
    /\ uploads[u].req["past"] = "fulfilled" /\ uploads[u].req["present"] = "fulfilled"
    /\ status = "error" /\ error # Undefined
    /\ data.analysis = u /\ data.originalImage = u
    /\ data.pastImage = Null /\ data.presentImage = Null /\ data.audioBlob = NoAudio

StatusOrders ==
  {<<"analyzing">>, <<"analyzing", "generating">>,
   <<"analyzing", "generating", "complete">>,
   <<"analyzing", "error">>, <<"analyzing", "generating", "error">>}

\* C6: an accepted upload calls analyzeArtifact exactly once; generateImage
\* and generateSpeech are called only after analyzeArtifact has returned
\* successfully and never after it failed; whenever the upload awaits the
\* three, all three have been started (generateImage twice, generateSpeech
\* once); the upload sets the status in the order analyzing, generating,
\* complete when it succeeds.
C6_StageOrder ==
  /\ [](\A u \in Live :
          LET up == uploads[u] IN
          /\ up.calls.analyzeArtifact = IF up.pc = "reading" THEN 0 ELSE 1
          /\ (\E k \in GenNames : up.req[k] # "idle")
                => up.req["analyze"] = "fulfilled"
          /\ up.req["analyze"] # "fulfilled"
                => up.calls.generateImage = 0 /\ up.calls.generateSpeech = 0
          /\ (up.pc = "generating" \/ AllFulfilled(up.req))
                => /\ \A k \in GenNames : up.req[k] # "idle"
                   /\ up.calls.generateImage = 2 /\ up.calls.generateSpeech = 1
          /\ up.wrote \in StatusOrders
          /\ (up.pc = "done" /\ AllFulfilled(up.req))
                => up.wrote = <<"analyzing", "generating", "complete">>)
  /\ [][\A u \in Ids :
          (uploads'[u].pc \notin {"unused", "collected"}
             /\ uploads'[u].wrote # uploads[u].wrote)
          => status' = Last(uploads'[u].wrote)]_vars

C6_Witness ==
  \E u \in Ids :
    /\ uploads[u].pc = "done" /\ status = "complete"
    /\ uploads[u].wrote = <<"analyzing", "generating", "complete">>
    /\ uploads[u].calls = [analyzeArtifact |-> 1, generateImage |-> 2,
                           generateSpeech |-> 1]
    /\ data.analysis = u /\ data.pastImage = u /\ data.presentImage = u
    /\ data.audioBlob.upload = u

----------------------------------------------------------------------------
(* Properties of the service calls, checked under SpecService.             *)

\* The attempt got an answer that lacks what the service needs: a text that
\* is not JSON, no inline part, no data in the first part.
MalformedResponse(name, a) ==
  /\ name = "analyzeArtifact" /\ a.kind = "responds"
  /\ a.response.text # Undefined /\ ~a.response.text[1].wellFormed
SynthesisFailure(name, a) ==
  /\ name \in {"generateImage", "generateSpeech"} /\ a.kind = "responds"
  /\ BodyOf(name, a.response).kind = "throw"

RaisedAtOnce ==
  /\ rt.res.kind = "throw" /\ rt.res.error = rt.fn[1].error
  /\ rt.res.calls = 1 /\ rt.res.sleeps = <<>>

\* C11: a SynthesisFailure or a MalformedResponse raised inside an attempt is
\* never retried: the wrapped operation is invoked exactly once for that call
\* and the failure reaches the caller with no backoff delay.
C11_PermanentNotRetried ==
  (rt.phase = "done" /\ (\/ SynthesisFailure(rt.name, rt.attempts[1])
                         \/ MalformedResponse(rt.name, rt.attempts[1])))
  => RaisedAtOnce

\* A SynthesisFailure alone is raised at once.
SynthesisNotRetried ==
  (rt.phase = "done" /\ SynthesisFailure(rt.name, rt.attempts[1])) => RaisedAtOnce

----------------------------------------------------------------------------
(* Properties of the error categories.                                     *)

\* withRetry gave up on a transient error after its last retry
RetriesExhausted ==
  /\ rt.res.kind = "throw" /\ rt.res.calls = MAX_RETRIES + 1
  /\ IsTransient(rt.res.error)

\* C12: a failure is surfaced with the 'temporary hiccup' message only after
\* the failing call made MAX_RETRIES + 1 attempts and exhausted its retries,
\* and every failure that exhausted its retries is surfaced with that message.
C12_HiccupIffExhausted ==
  rt.phase = "caught" => (error = StrHiccup <=> RetriesExhausted)

\* The two directions of the equivalence.
C12_HiccupOnlyIfExhausted ==
  (rt.phase = "caught" /\ error = StrHiccup) => RetriesExhausted
C12_ExhaustedThenHiccup ==
  (rt.phase = "caught" /\ RetriesExhausted) => error = StrHiccup

----------------------------------------------------------------------------
(* Properties of the credential flag, checked under Spec.                  *)

\* a credential rejection is on display: flag cleared, status 'error'
RejectionSurfaced == status = "error" /\ error = StrRefused /\ ~hasKey

\* While the flag is clear no processFile call gets past the credential check,
\* so no upload is accepted and no request of a new upload is issued.
NoUploadWithoutKey ==
  [][~hasKey => (nextId' = nextId /\ \A u \in Ids : uploads[u].pc = "unused"
                                        => uploads'[u].pc = "unused")]_vars

\* An upload attempt made while the flag is clear (the warning modal is
\* confirmed) opens the key selector and leaves status and data alone.
AttemptOpensSelector ==
  [][(~hasKey /\ pendingFile /\ ~pendingFile' /\ selecting' # selecting)
       => /\ selecting' = selecting + 1
          /\ status' = status /\ data' = data /\ error' = error
          /\ uploads' = uploads /\ hasKey' = hasKey]_vars

\* After a rejection was surfaced the flag is set again only by the key
\* selector completing.
FlagSetBySelectorOnly ==
  [][(RejectionSurfaced /\ hasKey') => selecting' = selecting - 1]_vars

\* C13: once a credential rejection has been surfaced (flag cleared, status
\* 'error') no request is issued for a later upload attempt until the key
\* selector has been completed and the flag is set again; an upload attempt
\* made meanwhile opens the key selector and leaves status and data unchanged.
C13_CredentialTerminal ==
  /\ NoUploadWithoutKey
  /\ AttemptOpensSelector
  /\ FlagSetBySelectorOnly

----------------------------------------------------------------------------
(* Properties of reset, checked under Spec.                                *)

\* setStatus('idle') is called by reset() alone
ResetStep == status # "idle" /\ status' = "idle"

\* C14: reset, from any status, leaves the session with status 'idle', error
\* null and the data empty: analysis, originalImage, pastImage and
\* presentImage all null and no audio payload.
C14_ResetEmpties ==
  [][ResetStep =>
       /\ error' = Undefined
       /\ data'.analysis = Null /\ data'.originalImage = Null
       /\ data'.pastImage = Null /\ data'.presentImage = Null
       /\ data'.audioBlob = NoAudio]_vars

\* reset has run after an upload completed and before any later upload
\* wrote to the session
C14_Witness ==
  /\ status = "idle" /\ error = Undefined /\ data = EmptyData
  /\ \E u \in Ids : uploads[u].pc = "done" /\ Last(uploads[u].wrote) = "complete"
  /\ \A u \in Ids : uploads[u].pc \in {"unused", "done"}

----------------------------------------------------------------------------
(* Properties of the generating stage, checked under Spec.                 *)

\* reader.onload of upload u leaves the generating stage through its catch
\* block in this step
GenFailureObserved(u) ==
  /\ uploads[u].pc = "generating" /\ uploads'[u].pc = "done"
  /\ Last(uploads'[u].wrote) = "error"

\* C15 as stated: a failure in the generating stage is observed only after
\* all three requests have settled, so no sibling is in flight when the status
\* becomes 'error'.
C15_Original ==
  [][\A u \in Ids : GenFailureObserved(u) =>
        \A k \in GenNames : uploads'[u].req[k] \in {"fulfilled", "rejected"}]_vars

\* C15 amended: a failure in the generating stage is observed in the step in
\* which the first of the three requests rejects, whatever state its siblings
\* are in: the status becomes 'error' at once, exactly one request is rejected
\* then, and the siblings are left as they are, in flight or fulfilled.
C15_FirstRejectionObserved ==
  [][\A u \in Ids :
        /\ ( /\ uploads[u].pc = "generating"
             /\ \E k \in GenNames : uploads'[u].req[k] = "rejected" )
           => (GenFailureObserved(u) /\ status' = "error")
        /\ GenFailureObserved(u) =>
             \E k \in GenNames :
               /\ uploads[u].req[k] = "inflight" /\ uploads'[u].req[k] = "rejected"
               /\ \A j \in GenNames \ {k} :
                    /\ uploads'[u].req[j] = uploads[u].req[j]
                    /\ uploads[u].req[j] \in {"inflight", "fulfilled"}]_vars

\* the status is 'error' through a failed image request while the narration
\* request of the same upload is still in flight
C15_Witness ==
  \E u \in Ids :
    /\ status = "error" /\ uploads[u].pc = "done"
    /\ Last(uploads[u].wrote) = "error"
    /\ uploads[u].req["past"] = "rejected"
    /\ uploads[u].req["present"] = "fulfilled"
    /\ uploads[u].req["speech"] = "inflight"
    /\ data.originalImage = u

----------------------------------------------------------------------------
(* Properties of playback, checked under SpecPlayback.                     *)

\* playNarrative catches an exception of the decoder in this step
PlaybackCaught == pcm' # pcm /\ pcm'.res.kind = "throw"

\* C16: every exception the application catches is made visible as status
\* 'error' with a non-null error message; here, an exception caught while
\* decoding the narration for playback.
C16_NothingSwallowed ==
  [][PlaybackCaught => (status' = "error" /\ error' # Undefined)]_vars

----------------------------------------------------------------------------
(* Properties of a request that does not settle, checked under Spec.       *)

\* No step of the program settles a request by itself, so a request that
\* never settles is one that stays in flight; what holds of an upload
\* whenever one of its requests is in flight holds for as long as it hangs.
InFlight(u) == {k \in ReqNames : uploads[u].req[k] = "inflight"}

\* C17 as stated: while a request of an upload has not settled, the upload
\* stays in its stage, 'analyzing' or 'generating', and has set the status to
\* neither 'complete' nor 'error', whatever its other requests do.
C17_Original ==
  \A u \in Ids : InFlight(u) # {} =>
    /\ uploads[u].pc = (IF "analyze" \in InFlight(u) THEN "analyzing" ELSE "generating")
    /\ Last(uploads[u].wrote) \notin {"complete", "error"}

\* C17 amended: while the analyzer request of an upload has not settled, the
\* upload stays in 'analyzing'; while one of its three generating requests has
\* not settled, the upload never sets 'complete', and it sets 'error' only
\* when a sibling request has rejected or when starting a sibling request
\* threw; otherwise it stays in 'generating'.
C17_HangsUnlessSiblingRejects ==
  \A u \in Ids : InFlight(u) # {} =>
    /\ Last(uploads[u].wrote) # "complete"
    /\ "analyze" \in InFlight(u)
         => (uploads[u].pc = "analyzing" /\ Last(uploads[u].wrote) = "analyzing")
    /\ "analyze" \notin InFlight(u) =>
         IF \E k \in GenNames : uploads[u].req[k] \in {"rejected", "idle"}
         THEN uploads[u].pc = "done" /\ Last(uploads[u].wrote) = "error"
         ELSE uploads[u].pc = "generating" /\ Last(uploads[u].wrote) = "generating"

\* both images have arrived and the narration request is still in flight
C17_Witness ==
  \E u \in Ids :
    /\ InFlight(u) = {"speech"}
    /\ uploads[u].req["past"] = "fulfilled" /\ uploads[u].req["present"] = "fulfilled"
    /\ uploads[u].pc = "generating" /\ status = "generating"
    /\ data.pastImage # u /\ data.presentImage # u

----------------------------------------------------------------------------
(* Properties of playback across reset, checked under SpecPlayback.        *)

\* C18: after reset no audio source started by playNarrative is still
\* playing, for every sequence of play, stop, end-of-playback and reset
\* events, including the onended event of an earlier, already stopped source
\* arriving after a newer source was started.
C18_StoppedOnReset ==
  [][ResetStep => \A i \in 1..MaxSources : audioSources'[i] # "playing"]_vars

----------------------------------------------------------------------------
(* Properties of reset against uploads in flight, checked under Spec.      *)

\* C19: after a reset during 'analyzing' or 'generating' the status stays
\* 'idle' and the data stays empty until the user starts a new upload: while
\* the status is 'idle', a step that accepts no upload - in particular the
\* settling of a request started before the reset - changes neither status,
\* data nor error.
C19_ResetIsolates ==
  [][(status = "idle" /\ nextId' = nextId)
       => (status' = "idle" /\ data' = data /\ error' = error)]_vars

----------------------------------------------------------------------------
(* Properties of the 'complete' status, checked under Spec.                *)

\* C20: in every reachable state, status 'complete' implies that analysis,
\* originalImage, pastImage and presentImage are all non-null.
C20_CompleteHasAll ==
  status = "complete" =>
    /\ data.analysis # Null /\ data.originalImage # Null
    /\ data.pastImage # Null /\ data.presentImage # Null

\* The same past the initial state, for a status 'complete' set by an upload.
CompleteAfterUploadHasAll ==
  (status = "complete" /\ nextId > 0) =>
    /\ data.analysis # Null /\ data.originalImage # Null
    /\ data.pastImage # Null /\ data.presentImage # Null

----------------------------------------------------------------------------
(* Properties of the data across uploads, checked under Spec.              *)

\* C21: whenever the status is 'complete' after an upload, the analysis,
\* pastImage, presentImage and audioBlob of the session data were all
\* produced for the same upload as the current originalImage.
C21_NoMixing ==
  (status = "complete" /\ nextId > 0) =>
    \E u \in Ids :
      /\ data.originalImage = u /\ data.analysis = u
      /\ data.pastImage = u /\ data.presentImage = u
      /\ data.audioBlob.upload = u

\* The status is never 'complete' with the original image of one upload and
\* the generated images of another.
NoTwoUploadsShown ==
  ~( /\ status = "complete"
     /\ data.originalImage \in Ids /\ data.pastImage \in Ids
     /\ data.originalImage # data.pastImage )

----------------------------------------------------------------------------
(* Properties of the playback flag, checked under SpecPlayback.            *)

\* The handle holds a source that was started and whose onended handler has
\* not run; a stopped source is never held, since stopAudio clears the handle.
HandleHoldsLiveSource ==
  audioSourceRef # Null /\ audioSources[audioSourceRef] \in {"playing", "finishing"}

\* C22: in every reachable state isPlaying is true exactly when the handle
\* refers to a source that was started and has neither ended nor been
\* stopped, and a started source that is still playing is the one held by the
\* handle, so that stopAudio can stop it.
C22_PlayingFlagConsistent ==
  /\ isPlaying <=> HandleHoldsLiveSource
  /\ \A i \in 1..MaxSources : audioSources[i] = "playing" => audioSourceRef = i

\* The flag and the handle agree with each other in every state.
FlagAgreesWithHandle == isPlaying <=> HandleHoldsLiveSource

====
